---- MODULE Spec2Model ----
(***************************************************************************)
(* A model of app.py, the Flask student management system: the User,       *)
(* StudentRecord and Assignment tables, the upload folder, and the request *)
(* handlers that read and write them.                                      *)
(*                                                                         *)
(* Text (form fields, CSV cells, filenames, grades, file paths) is a       *)
(* sequence of one-character strings, so that int(), secure_filename(),    *)
(* os.path.join() and csv.writer are computed character by character.      *)
(***************************************************************************)
EXTENDS Integers, Sequences, FiniteSets, TLC

VARIABLES
    records,      \* the student_record table: rows [id, user_id, grades]
    assignments,  \* the assignment table: rows [id, student_id, filename, filepath]
    files,        \* the upload folder: path -> bytes of the file at that path
    submitted,    \* history: assignment id -> the bytes its upload request carried
    http          \* per worker: the request in flight, its locals, its response

vars == <<records, assignments, files, submitted, http>>

\* Python's None where a text is expected (a NULL column, an absent CSV cell):
\* no text, whose elements are single characters, equals it.
None == <<"None">>
\* No exception raised.
NoExc == "NoExc"
\* No row found by a query; a found row is <<id>>.
NoRow == <<>>

----------------------------------------------------------------------------
(* Bounds of the model. *)

\* Request workers (the development server handles each request on a thread
\* of its own); SpecRace runs them all, the other specifications one.
NumWorkers == 2
\* Data lines of an uploaded CSV file.
MaxRows == 2
\* Rows of the assignment table.
MaxAssignments == 2

Workers == 1..NumWorkers

----------------------------------------------------------------------------
(* Text helpers (Python str methods). *)

Whitespace == {" ", "\t"}

RECURSIVE LStrip(_, _)
LStrip(s, chars) ==
    IF s # <<>> /\ Head(s) \in chars THEN LStrip(Tail(s), chars) ELSE s

RECURSIVE RStrip(_, _)
RStrip(s, chars) ==
    IF s # <<>> /\ s[Len(s)] \in chars
    THEN RStrip(SubSeq(s, 1, Len(s) - 1), chars)
    ELSE s

\* str.strip(chars)
Strip(s, chars) == RStrip(LStrip(s, chars), chars)

\* str.replace(old, new) for a one-character old
Replace(s, old, new) == [i \in 1..Len(s) |-> IF s[i] = old THEN new ELSE s[i]]

\* "_".join(s.split()): the whitespace-separated words of s joined by "_"
RECURSIVE JoinWords(_, _, _)
JoinWords(s, started, gap) ==
    IF s = <<>> THEN <<>>
    ELSE IF Head(s) \in Whitespace
         THEN JoinWords(Tail(s), started, started)
         ELSE (IF gap THEN <<"_">> ELSE <<>>) \o <<Head(s)>>
              \o JoinWords(Tail(s), TRUE, FALSE)

DigitVal ==
    ("0" :> 0) @@ ("1" :> 1) @@ ("2" :> 2) @@ ("3" :> 3) @@ ("4" :> 4) @@
    ("5" :> 5) @@ ("6" :> 6) @@ ("7" :> 7) @@ ("8" :> 8) @@ ("9" :> 9)

RECURSIVE DigitsValue(_, _)
DigitsValue(s, acc) ==
    IF s = <<>> THEN acc ELSE DigitsValue(Tail(s), 10 * acc + DigitVal[Head(s)])

\* int(x): [exc, val].  None raises TypeError; text is stripped, may carry a
\* sign, and must then be a non-empty run of ASCII digits, else ValueError.
PyInt(x) ==
    IF x = None THEN [exc |-> "TypeError", val |-> 0]
    ELSE LET t      == Strip(x, Whitespace)
             signed == t # <<>> /\ Head(t) \in {"+", "-"}
             digits == IF signed THEN Tail(t) ELSE t
         IN  IF digits = <<>> \/ \E i \in 1..Len(digits) : digits[i] \notin DOMAIN DigitVal
             THEN [exc |-> "ValueError", val |-> 0]
             ELSE [exc |-> NoExc,
                   val |-> IF signed /\ Head(t) = "-"
                           THEN 0 - DigitsValue(digits, 0)
                           ELSE DigitsValue(digits, 0)]

----------------------------------------------------------------------------
(* The user table.  No route creates, changes or removes a user: the table *)
(* is what provisioning left.  Ids 1..3 are the users seeded at start-up;  *)
(* id 4 is a second student.                                               *)

Users ==
    { [id |-> 1, username |-> <<"s","t","u","d","e","n","t","1">>, role |-> "student"],
      [id |-> 2, username |-> <<"s","t","a","f","f","1">>,         role |-> "staff"],
      [id |-> 3, username |-> <<"p","r","o","f","1">>,             role |-> "professor"],
      [id |-> 4, username |-> <<"s","t","u","d","e","n","t","2">>, role |-> "student"] }

UserIds == {u.id : u \in Users}

\* current_user of a request: the logged-in user the session cookie names
current_user(req) == CHOOSE u \in Users : u.id = req.actor

\* User.query.filter_by(id=id, role='student'): the matching rows (one or none)
StudentById(id) == {u \in Users : u.id = id /\ u.role = "student"}

----------------------------------------------------------------------------
(* The student_record table and the SQLAlchemy session over it.            *)

\* UniqueUserId gone wrong: the constraint declared over (user_id, grades).
UniqueUserIdAndGrades(tbl) ==
    \A r1, r2 \in tbl :
        (r1.user_id = r2.user_id /\ r1.grades = r2.grades) => r1.id = r2.id

\* UniqueUserId gone wrong: unique=True left out of the column.
NoUniqueConstraint(tbl) == TRUE

\* unique=True on StudentRecord.user_id: no two rows carry the same user_id.
UniqueUserId(tbl) ==
    \A r1, r2 \in tbl : r1.user_id = r2.user_id => r1.id = r2.id

\* The primary key SQLite gives a new row: one more than the largest in use.
NextId(tbl) ==
    IF tbl = {} THEN 1 ELSE 1 + CHOOSE m \in {r.id : r \in tbl} : \A r \in tbl : r.id <= m

\* INSERT INTO student_record (user_id, grades): [exc, tbl].  The database
\* refuses a row that breaks the unique constraint.  SQLite does not enforce
\* the foreign key to user.id (PRAGMA foreign_keys is off and never set).
Insert(tbl, user_id, grades) ==
    LET new == tbl \cup {[id |-> NextId(tbl), user_id |-> user_id, grades |-> grades]}
    IN  IF UniqueUserId(new)
        THEN [exc |-> NoExc, tbl |-> new]
        ELSE [exc |-> "IntegrityError", tbl |-> tbl]

\* UPDATE student_record SET grades = ... WHERE id = ...
Update(tbl, id, grades) ==
    {IF r.id = id THEN [r EXCEPT !.grades = grades] ELSE r : r \in tbl}

\* A session: tbl is the table as this transaction sees it, new the objects
\* added and not yet flushed, exc the exception raised so far (or None).
Session(tbl) == [tbl |-> tbl, new |-> <<>>, exc |-> NoExc]

\* session.flush(): INSERT every pending object, in the order it was added.
RECURSIVE Flush(_)
Flush(s) ==
    IF s.exc # NoExc \/ s.new = <<>> THEN s
    ELSE LET ins == Insert(s.tbl, Head(s.new).user_id, Head(s.new).grades)
         IN  IF ins.exc # NoExc
             THEN [s EXCEPT !.exc = ins.exc]
             ELSE Flush([s EXCEPT !.tbl = ins.tbl, !.new = Tail(s.new)])

\* The session Flask-SQLAlchemy creates flushes before every query.
Autoflush(s) == Flush(s)

\* StudentRecord.query.filter_by(user_id=user_id).first(): [sess, record],
\* record <<id>> of the first matching row, or NoRow.
QueryFirst(s, user_id) ==
    LET s1  == Autoflush(s)
        hit == {r \in s1.tbl : r.user_id = user_id}
    IN  [sess   |-> s1,
         record |-> IF s1.exc # NoExc \/ hit = {} THEN NoRow
                    ELSE <<(CHOOSE r \in hit : \A q \in hit : r.id <= q.id).id>>]

\* db.session.add(StudentRecord(user_id=..., grades=...))
Add(s, user_id, grades) ==
    [s EXCEPT !.new = Append(@, [user_id |-> user_id, grades |-> grades])]

\* record.grades = grades on a loaded row (the UPDATE goes out with the next flush)
SetGrades(s, id, grades) == [s EXCEPT !.tbl = Update(@, id, grades)]

\* The update-or-add both grade handlers perform on the looked-up record.
Upsert(s, record, user_id, grades) ==
    IF record # NoRow THEN SetGrades(s, record[1], grades) ELSE Add(s, user_id, grades)

----------------------------------------------------------------------------
(* Requests and responses.                                                 *)

\* No fault injected by the environment while the request ran.
NoFault == [at |-> "none"]

Idle == [phase |-> "idle", req |-> [op |-> "none"], record |-> NoRow,
         fault |-> NoFault,
         resp |-> [status |-> 0, exc |-> NoExc, body |-> None]]

Response(status, exc, body) == [status |-> status, exc |-> exc, body |-> body]

\* The worker takes a request.
Accept(w, req) ==
    /\ http[w].phase = "idle"
    /\ http' = [http EXCEPT ![w] = [Idle EXCEPT !.phase = "request", !.req = req]]

\* The worker's handler returns (or raises): the response is ready.
Reply(w, resp) ==
    http' = [http EXCEPT ![w].phase = "response", ![w].resp = resp]

\* The same, after the environment injected a fault.
ReplyAfter(w, fault, resp) ==
    http' = [http EXCEPT ![w].phase = "response", ![w].fault = fault, ![w].resp = resp]

Handling(w, op) == http[w].phase = "request" /\ http[w].req.op = op

\* The response goes out and the worker is free again.
Deliver(w) ==
    /\ http[w].phase = "response"
    /\ http' = [http EXCEPT ![w] = Idle]
    /\ UNCHANGED <<records, assignments, files, submitted>>

\* IsStaffOrProfessor gone wrong: every logged-in user is let through.
AnyRole(user) == TRUE

\* current_user.role in ['staff', 'professor']
IsStaffOrProfessor(user) == user.role \in {"staff", "professor"}

----------------------------------------------------------------------------
(* edit_grades (POST).  Two steps, the lookup and the commit, between      *)
(* which another worker's request may run.                                 *)

edit_grades_lookup(w) ==
    /\ Handling(w, "edit_grades")
    /\ LET req == http[w].req
           sid == PyInt(req.student_id)
       IN  IF ~IsStaffOrProfessor(current_user(req))
           THEN Reply(w, Response(403, NoExc, None))
           ELSE IF sid.exc # NoExc
           THEN Reply(w, Response(500, sid.exc, None))
           ELSE http' = [http EXCEPT
                    ![w].phase = "lookup",
                    ![w].record = QueryFirst(Session(records), sid.val).record]
    /\ UNCHANGED <<records, assignments, files, submitted>>

edit_grades_commit(w) ==
    /\ http[w].phase = "lookup"
    /\ LET req  == http[w].req
           sid  == PyInt(req.student_id).val
           sess == Flush(Upsert(Session(records), http[w].record, sid, req.grades))
       IN  IF sess.exc # NoExc
           THEN /\ Reply(w, Response(500, sess.exc, None))
                /\ UNCHANGED records
           ELSE /\ Reply(w, Response(302, NoExc, None))
                /\ records' = sess.tbl
    /\ UNCHANGED <<assignments, files, submitted>>

----------------------------------------------------------------------------
(* upload_grades_csv (POST, with a file in the form).  The uploaded file   *)
(* is modelled from what csv.reader yields: a header line and data lines,  *)
(* each a sequence of cells.                                               *)

IndexOf(seq, x) == CHOOSE i \in 1..Len(seq) : seq[i] = x

\* One row of csv.DictReader: the header's names mapped to the line's cells,
\* None (restval) for the names a short line has no cell for.
DictRow(header, line) ==
    [k \in {header[i] : i \in 1..Len(header)} |->
        IF IndexOf(header, k) <= Len(line) THEN line[IndexOf(header, k)] ELSE None]

\* csv.DictReader(stream): a row per line, empty lines skipped.
DictReader(file) ==
    LET lines == SelectSeq(file.lines, LAMBDA l : l # <<>>)
    IN  [i \in 1..Len(lines) |-> DictRow(file.header, lines[i])]

\* The try block: student_id = int(row['student_id']); grades = row['grades'].
ParseRow(row) ==
    IF "student_id" \notin DOMAIN row
    THEN [exc |-> "KeyError", student_id |-> 0, grades |-> None]
    ELSE LET n == PyInt(row["student_id"])
         IN  IF n.exc # NoExc
             THEN [exc |-> n.exc, student_id |-> 0, grades |-> None]
             ELSE IF "grades" \notin DOMAIN row
             THEN [exc |-> "KeyError", student_id |-> 0, grades |-> None]
             ELSE [exc |-> NoExc, student_id |-> n.val, grades |-> row["grades"]]

\* except (KeyError, ValueError): continue
Skipped(exc) == exc \in {"KeyError", "ValueError"}

\* The for loop from row i on.  fault names the row at whose query the
\* database raises (OperationalError), if any.
RECURSIVE ImportRows(_, _, _, _)
ImportRows(rows, i, s, fault) ==
    IF s.exc # NoExc \/ i > Len(rows) THEN s
    ELSE LET p == ParseRow(rows[i])
         IN  IF Skipped(p.exc) THEN ImportRows(rows, i + 1, s, fault)
             ELSE IF p.exc # NoExc THEN [s EXCEPT !.exc = p.exc]
             ELSE LET q == QueryFirst(s, p.student_id)
                  IN  IF q.sess.exc # NoExc THEN q.sess
                      ELSE IF fault.at = "row" /\ fault.row = i
                      THEN [q.sess EXCEPT !.exc = "OperationalError"]
                      ELSE ImportRows(rows, i + 1,
                               Upsert(q.sess, q.record, p.student_id, p.grades), fault)

\* db.session.commit() after the loop
Commit(s, fault) ==
    IF s.exc # NoExc THEN s
    ELSE IF fault.at = "commit" THEN [s EXCEPT !.exc = "OperationalError"]
    ELSE Flush(s)

\* ImportOutcome gone wrong: db.session.commit() inside the loop, so that
\* what was flushed stays.
ImportOutcomeCommitPerRow(tbl, s) == s.tbl

\* The table the handler leaves: the one commit after the loop makes the
\* whole batch durable; an exception before it ends the request, and the
\* session is rolled back when the request is torn down.
ImportOutcome(tbl, s) == IF s.exc # NoExc THEN tbl ELSE s.tbl

\* The faults the environment can inject into an import of n rows.
ImportFaults(n) ==
    {NoFault, [at |-> "commit"]} \cup {[at |-> "row", row |-> i] : i \in 1..n}

upload_grades_csv(w) ==
    /\ Handling(w, "upload_grades_csv")
    /\ LET req == http[w].req
       IN  IF ~IsStaffOrProfessor(current_user(req))
           THEN /\ Reply(w, Response(403, NoExc, None))
                /\ UNCHANGED records
           ELSE \E fault \in ImportFaults(Len(DictReader(req.file))) :
                LET rows == DictReader(req.file)
                    sess == Commit(ImportRows(rows, 1, Session(records), fault), fault)
                IN  /\ records' = ImportOutcome(records, sess)
                    /\ ReplyAfter(w, fault,
                           IF sess.exc # NoExc THEN Response(500, sess.exc, None)
                           ELSE Response(302, NoExc, None))
    /\ UNCHANGED <<assignments, files, submitted>>

----------------------------------------------------------------------------
(* upload_assignment (POST), list_assignments, download_assignment.        *)

Letters ==
    {"a","b","c","d","e","f","g","h","i","j","k","l","m",
     "n","o","p","q","r","s","t","u","v","w","x","y","z",
     "A","B","C","D","E","F","G","H","I","J","K","L","M",
     "N","O","P","Q","R","S","T","U","V","W","X","Y","Z"}

\* What werkzeug's _filename_ascii_strip_re keeps: [A-Za-z0-9_.-]
SafeChars == Letters \cup DOMAIN DigitVal \cup {"_", ".", "-"}

\* werkzeug.utils.secure_filename on POSIX, for ASCII names: every "/"
\* becomes a space, the words are joined by "_", every character outside
\* SafeChars is dropped, and leading and trailing "." and "_" are stripped.
secure_filename(raw) ==
    Strip(SelectSeq(JoinWords(Replace(raw, "/", " "), FALSE, FALSE),
                    LAMBDA c : c \in SafeChars),
          {".", "_"})

UPLOAD_FOLDER == <<"u","p","l","o","a","d","s">>

\* os.path.join(folder, name)
PathJoin(folder, name) ==
    IF name # <<>> /\ Head(name) = "/" THEN name
    ELSE IF folder # <<>> /\ folder[Len(folder)] = "/" THEN folder \o name
    ELSE folder \o <<"/">> \o name

\* The faults the environment can inject into file.save of data: open()
\* fails, or the write fails after a part of data has reached the file.
SaveFaults(data) ==
    {NoFault, [at |-> "open"]}
    \cup {[at |-> "write", written |-> SubSeq(data, 1, n)] : n \in 0..(Len(data) - 1)}

\* file.save(filepath): [exc, files].  open(filepath, "wb") refuses a path
\* that ends in "/" (a directory); otherwise it creates or truncates the
\* file at filepath, and the data is written to it.
Save(fs, filepath, data, fault) ==
    IF filepath[Len(filepath)] = "/" THEN [exc |-> "IsADirectoryError", files |-> fs]
    ELSE IF fault.at = "open" THEN [exc |-> "OSError", files |-> fs]
    ELSE IF fault.at = "write"
    THEN [exc |-> "OSError", files |-> (filepath :> fault.written) @@ fs]
    ELSE [exc |-> NoExc, files |-> (filepath :> data) @@ fs]

\* RowsAfterSave gone wrong: the row added and committed before file.save.
RowsBeforeSave(tbl, row, exc) == tbl \cup {row}

\* The assignment table after the handler: the row is added and committed
\* only once file.save has returned.
RowsAfterSave(tbl, row, exc) == IF exc = NoExc THEN tbl \cup {row} ELSE tbl

Flash(msg) == [flash |-> msg]

upload_assignment(w) ==
    /\ Handling(w, "upload_assignment")
    /\ LET req == http[w].req
       IN  IF current_user(req).role # "student"
           THEN /\ Reply(w, Response(403, NoExc, None))
                /\ UNCHANGED <<assignments, files, submitted>>
           ELSE IF req.filename = None
           THEN /\ Reply(w, Response(302, NoExc, Flash("No file part")))
                /\ UNCHANGED <<assignments, files, submitted>>
           ELSE IF req.filename = <<>>
           THEN /\ Reply(w, Response(302, NoExc, Flash("No selected file")))
                /\ UNCHANGED <<assignments, files, submitted>>
           ELSE \E fault \in SaveFaults(req.data) :
                LET filename == secure_filename(req.filename)
                    filepath == PathJoin(UPLOAD_FOLDER, filename)
                    saved    == Save(files, filepath, req.data, fault)
                    row      == [id |-> NextId(assignments), student_id |-> req.actor,
                                 filename |-> filename, filepath |-> filepath]
                IN  /\ files' = saved.files
                    /\ assignments' = RowsAfterSave(assignments, row, saved.exc)
                    /\ submitted' = IF assignments' # assignments
                                    THEN (row.id :> req.data) @@ submitted
                                    ELSE submitted
                    /\ IF saved.exc # NoExc
                       THEN ReplyAfter(w, fault, Response(500, saved.exc, None))
                       ELSE Reply(w, Response(302, NoExc, Flash("Assignment uploaded.")))
    /\ UNCHANGED records

list_assignments(w) ==
    /\ Handling(w, "list_assignments")
    /\ IF ~IsStaffOrProfessor(current_user(http[w].req))
       THEN Reply(w, Response(403, NoExc, None))
       ELSE Reply(w, Response(200, NoExc, assignments))
    /\ UNCHANGED <<records, assignments, files, submitted>>

download_assignment(w) ==
    /\ Handling(w, "download_assignment")
    /\ LET req == http[w].req
           hit == {a \in assignments : a.id = req.id}
       IN  IF ~IsStaffOrProfessor(current_user(req))
           THEN Reply(w, Response(403, NoExc, None))
           ELSE IF hit = {}
           THEN Reply(w, Response(404, NoExc, None))
           ELSE LET a == CHOOSE a \in hit : TRUE
                IN  IF a.filepath \in DOMAIN files
                    THEN Reply(w, Response(200, NoExc, files[a.filepath]))
                    ELSE Reply(w, Response(500, "FileNotFoundError", None))
    /\ UNCHANGED <<records, assignments, files, submitted>>

----------------------------------------------------------------------------
(* student_record, export_pdf, export_csv.                                 *)

\* Not (current_user.role == 'student' and current_user.id != student.id)
MayAccess(user, student) == ~(user.role = "student" /\ user.id # student.id)

\* StudentRecord.query.filter_by(user_id=student.id).first(): rows, one or none
RecordOf(student) ==
    LET q == QueryFirst(Session(records), student.id)
    IN  {r \in records : q.record # NoRow /\ r.id = q.record[1]}

student_record(w) ==
    /\ Handling(w, "student_record")
    /\ LET req == http[w].req
           hit == StudentById(req.id)
       IN  IF hit = {} THEN Reply(w, Response(404, NoExc, None))
           ELSE LET student == CHOOSE u \in hit : TRUE
                IN  IF ~MayAccess(current_user(req), student)
                    THEN Reply(w, Response(403, NoExc, None))
                    ELSE Reply(w, Response(200, NoExc,
                             [student     |-> student,
                              record      |-> RecordOf(student),
                              assignments |-> {a \in assignments : a.student_id = student.id}]))
    /\ UNCHANGED <<records, assignments, files, submitted>>

NA == <<"N", "/", "A">>

\* str(x) as an f-string or csv.writer formats a field: text as it is
PyStr(x) == IF x = None THEN <<"N", "o", "n", "e">> ELSE x

\* record.grades if record else 'N/A'
GradesOrNA(record) == IF record = {} THEN NA ELSE (CHOOSE r \in record : TRUE).grades

\* The two strings export_pdf draws on the page.
PdfLines(student, record) ==
    << <<"S","t","u","d","e","n","t"," ","R","e","c","o","r","d"," ","f","o","r"," ">>
         \o PyStr(student.username),
       <<"G","r","a","d","e","s",":"," ">> \o PyStr(GradesOrNA(record)) >>

RECURSIVE DoubleQuotes(_)
DoubleQuotes(s) ==
    IF s = <<>> THEN <<>>
    ELSE (IF Head(s) = "\"" THEN <<"\"", "\"">> ELSE <<Head(s)>>) \o DoubleQuotes(Tail(s))

\* One field as csv.writer writes it (QUOTE_MINIMAL): None is written as the
\* empty field; a field holding the delimiter, a quote or a line break is
\* quoted, its quotes doubled.
CsvField(x) ==
    LET t == IF x = None THEN <<>> ELSE x
    IN  IF \E i \in 1..Len(t) : t[i] \in {",", "\"", "\r", "\n"}
        THEN <<"\"">> \o DoubleQuotes(t) \o <<"\"">>
        ELSE t

\* csv.writer.writerow(fields): the fields joined by "," and ended by \r\n
RECURSIVE WriteRow(_)
WriteRow(fields) ==
    IF Len(fields) = 1 THEN CsvField(fields[1]) \o <<"\r", "\n">>
    ELSE CsvField(Head(fields)) \o <<",">> \o WriteRow(Tail(fields))

\* The text export_csv writes.
CsvText(student, record) ==
    WriteRow(<< <<"U","s","e","r","n","a","m","e">>, <<"G","r","a","d","e","s">> >>)
    \o WriteRow(<<student.username, GradesOrNA(record)>>)

export_pdf(w) ==
    /\ Handling(w, "export_pdf")
    /\ LET req == http[w].req
           hit == StudentById(req.id)
       IN  IF hit = {} THEN Reply(w, Response(404, NoExc, None))
           ELSE LET student == CHOOSE u \in hit : TRUE
                IN  IF ~MayAccess(current_user(req), student)
                    THEN Reply(w, Response(403, NoExc, None))
                    ELSE Reply(w, Response(200, NoExc, PdfLines(student, RecordOf(student))))
    /\ UNCHANGED <<records, assignments, files, submitted>>

export_csv(w) ==
    /\ Handling(w, "export_csv")
    /\ LET req == http[w].req
           hit == StudentById(req.id)
       IN  IF hit = {} THEN Reply(w, Response(404, NoExc, None))
           ELSE LET student == CHOOSE u \in hit : TRUE
                IN  IF ~MayAccess(current_user(req), student)
                    THEN Reply(w, Response(403, NoExc, None))
                    ELSE Reply(w, Response(200, NoExc, CsvText(student, RecordOf(student))))
    /\ UNCHANGED <<records, assignments, files, submitted>>

----------------------------------------------------------------------------
(* The requests the model sends.                                           *)

GradeTexts == { <<"A">>, <<"B", "+">> }

Header == <<"student_id", "grades">>
HeaderSwapped == <<"grades", "student_id">>
HeaderNoGrades == <<"student_id">>

\* Data lines: well-formed ones, a non-integer id, a line cut short after
\* its first cell, a line in HeaderSwapped's column order, an empty line.
CsvLines ==
    { << <<"1">>, <<"A">> >>, << <<"1">>, <<"B", "+">> >>, << <<" ", "4">>, <<"A">> >>,
      << <<"x">>, <<"B", "+">> >>, << <<"1">> >>, << <<"A">>, <<"1">> >>, <<>> }

SeqsUpTo(S, n) == UNION {[1..k -> S] : k \in 0..n}

CsvFiles ==
    {[header |-> h, lines |-> l] :
        h \in {Header, HeaderSwapped, HeaderNoGrades}, l \in SeqsUpTo(CsvLines, MaxRows)}

EditGrades(actor, student_id, grades) ==
    [op |-> "edit_grades", actor |-> actor, student_id |-> student_id, grades |-> grades]

UploadGradesCsv(actor, file) ==
    [op |-> "upload_grades_csv", actor |-> actor, file |-> file]

UploadAssignment(actor, filename, data) ==
    [op |-> "upload_assignment", actor |-> actor, filename |-> filename, data |-> data]

\* student_record, export_pdf, export_csv, download_assignment: the id in the URL
ById(op, actor, id) == [op |-> op, actor |-> actor, id |-> id]

ListAssignments(actor) == [op |-> "list_assignments", actor |-> actor]

\* Raw filenames: ../../etc/passwd, ///, a.txt, ./a.txt, the empty name, and
\* a form without the file part.
RawFilenames ==
    { <<".",".","/",".",".","/","e","t","c","/","p","a","s","s","w","d">>,
      <<"/","/","/">>,
      <<"a",".","t","x","t">>,
      <<".","/","a",".","t","x","t">>,
      <<>>,
      None }

Blobs == { <<1, 2>>, <<3>> }

----------------------------------------------------------------------------
(* SpecGrades: grade edits and bulk imports by one staff user, one request *)
(* at a time.                                                              *)

Init ==
    /\ records = {}
    /\ assignments = {}
    /\ files = <<>>
    /\ submitted = <<>>
    /\ http = [w \in Workers |-> Idle]

GradesRequests ==
    {EditGrades(2, s, g) : s \in {<<"1">>, <<" ", "4">>}, g \in GradeTexts}
    \cup {UploadGradesCsv(2, f) : f \in CsvFiles}

ReceiveGrades ==
    /\ \E req \in GradesRequests : Accept(1, req)
    /\ UNCHANGED <<records, assignments, files, submitted>>

NextGrades ==
    \/ ReceiveGrades
    \/ edit_grades_lookup(1)
    \/ edit_grades_commit(1)
    \/ upload_grades_csv(1)
    \/ Deliver(1)

SpecGrades == Init /\ [][NextGrades]_vars

----------------------------------------------------------------------------
(* SpecRace: grade edits and a bulk import by staff, on concurrent workers. *)

\* An import whose two rows name the same student.
TwiceFile ==
    [header |-> Header,
     lines  |-> << << <<"1">>, <<"A">> >>, << <<"1">>, <<"B", "+">> >> >>]

RaceRequests ==
    {EditGrades(2, s, g) : s \in {<<"1">>, <<"2">>}, g \in GradeTexts}
    \cup {UploadGradesCsv(3, TwiceFile)}

ReceiveRace(w) ==
    /\ \E req \in RaceRequests : Accept(w, req)
    /\ UNCHANGED <<records, assignments, files, submitted>>

NextRace ==
    \E w \in Workers :
        \/ ReceiveRace(w)
        \/ edit_grades_lookup(w)
        \/ edit_grades_commit(w)
        \/ upload_grades_csv(w)
        \/ Deliver(w)

SpecRace == Init /\ [][NextRace]_vars

----------------------------------------------------------------------------
(* Properties of the grade records.                                        *)

RowsOf(tbl, user_id) == {r \in tbl : r.user_id = user_id}

\* A worker's request has run its handler to the response.
Responded(w, op) == http[w].phase = "response" /\ http[w].req.op = op

\* In this step worker w's handler for op ran to its response.
Handled(w, op) == Handling(w, op) /\ http'[w].phase = "response"

\* C1: after any sequence of single grade edits and bulk imports, a bulk
\* import naming one student twice included, at most one StudentRecord
\* exists for every user id.
C1_OneRecordPerUser ==
    \A r \in records : Cardinality(RowsOf(records, r.user_id)) <= 1

\* C1 witness: an import whose two rows name student 1 and a single edit of
\* student 1 have both succeeded, and the one record of student 1 holds the
\* import's second row.
C1_Witness ==
    \E w1, w2 \in Workers :
        /\ Responded(w1, "upload_grades_csv")
        /\ http[w1].req.file = TwiceFile
        /\ http[w1].resp.status = 302
        /\ Responded(w2, "edit_grades")
        /\ PyInt(http[w2].req.student_id).val = 1
        /\ http[w2].resp.status = 302
        /\ \E r \in records : RowsOf(records, 1) = {r} /\ r.grades = <<"B", "+">>

\* Worker w's edit_grades found no record for the student it names and has
\* gone on to (or past) its commit.
LookedUpNothing(w, user_id) ==
    /\ http[w].req.op = "edit_grades"
    /\ http[w].phase = "lookup" \/ (http[w].phase = "response" /\ http[w].resp.status # 403)
    /\ PyInt(http[w].req.student_id) = [exc |-> NoExc, val |-> user_id]
    /\ http[w].record = NoRow

\* C2: when two grade edits for the same student, who has no record, run
\* concurrently and both look up before either commits, no state holds two
\* rows for that student: at most one of the two commits goes through.
C2_RaceClosed ==
    \A w1, w2 \in Workers : \A u \in {1, 2} :
        (w1 # w2 /\ LookedUpNothing(w1, u) /\ LookedUpNothing(w2, u)) =>
            /\ Cardinality(RowsOf(records, u)) <= 1
            /\ ~(http[w1].phase = "response" /\ http[w1].resp.status = 302 /\
                 http[w2].phase = "response" /\ http[w2].resp.status = 302)

\* C2 witness: both edits found nothing, one committed its row and the other
\* was refused by the database.
C2_Witness ==
    \E w1, w2 \in Workers :
        /\ w1 # w2
        /\ LookedUpNothing(w1, 1) /\ LookedUpNothing(w2, 1)
        /\ http[w1].phase = "response" /\ http[w1].resp.status = 302
        /\ http[w2].phase = "response" /\ http[w2].resp.exc = "IntegrityError"
        /\ Cardinality(RowsOf(records, 1)) = 1

\* C9: every StudentRecord's user_id is the id of an existing user whose
\* role is student.
C9_RecordsOfStudentsOnly ==
    \A r \in records : StudentById(r.user_id) # {}

\* A row the import is to apply, in the claim's words: student_id present
\* and an integer, grades present.
WellFormed(row) ==
    /\ "student_id" \in DOMAIN row /\ row["student_id"] # None
    /\ PyInt(row["student_id"]).exc = NoExc
    /\ "grades" \in DOMAIN row /\ row["grades"] # None

\* The rows among the first n that are well-formed and name user_id.
Naming(rows, n, user_id) ==
    {i \in 1..n : WellFormed(rows[i]) /\ PyInt(rows[i]["student_id"]).val = user_id}

Last(S) == CHOOSE i \in S : \A j \in S : j <= i

\* tbl1 is tbl0 with the well-formed rows among the first n applied in order.
Applied(tbl0, tbl1, rows, n) ==
    \A u \in {r.user_id : r \in tbl0 \cup tbl1}
             \cup {PyInt(rows[i]["student_id"]).val : i \in {j \in 1..n : WellFormed(rows[j])}} :
        IF Naming(rows, n, u) = {}
        THEN RowsOf(tbl1, u) = RowsOf(tbl0, u)
        ELSE /\ RowsOf(tbl1, u) # {}
             /\ \A r \in RowsOf(tbl1, u) : r.grades = rows[Last(Naming(rows, n, u))]["grades"]

\* C4: the bulk import skips every row whose student_id is missing or not
\* an integer or whose grades are missing, without aborting the batch, and
\* applies every other row in input order.
C4_SkipsMalformedAppliesRest ==
    [][\A w \in Workers :
        (Handled(w, "upload_grades_csv") /\ http'[w].resp.status # 403
            /\ http'[w].fault = NoFault) =>
        LET rows == DictReader(http[w].req.file)
        IN  /\ http'[w].resp.status = 302
            /\ Applied(records, records', rows, Len(rows))]_vars

\* The storage failed at row i of worker w's import, after the rows before
\* it, a well-formed one among them, had been processed.
FailedMidBatch(slot) ==
    /\ slot.req.op = "upload_grades_csv"
    /\ slot.phase = "response"
    /\ slot.fault.at = "row"
    /\ slot.resp.exc = "OperationalError"
    /\ \E i \in 1..(slot.fault.row - 1) : WellFormed(DictReader(slot.req.file)[i])

\* C5 as amended: a storage failure in the middle of a bulk import fails the
\* call and leaves the table as it was before the call.
C5_FailureRollsBack ==
    [][\A w \in Workers :
        (Handling(w, "upload_grades_csv") /\ FailedMidBatch(http'[w])) =>
            /\ http'[w].resp.status = 500
            /\ records' = records]_vars

\* C5 as claimed: a storage failure in the middle of a bulk import fails the
\* call and leaves the rows processed before the failure applied.
C5_PriorRowsStayApplied ==
    [][\A w \in Workers :
        (Handling(w, "upload_grades_csv") /\ FailedMidBatch(http'[w])) =>
            /\ http'[w].resp.status = 500
            /\ Applied(records, records', DictReader(http[w].req.file),
                       http'[w].fault.row - 1)]_vars

\* C5 witness: an import of two well-formed rows failed at its second row,
\* and the student its first row names has no record.
C5_Witness ==
    /\ FailedMidBatch(http[1])
    /\ http[1].fault.row = 2
    /\ WellFormed(DictReader(http[1].req.file)[2])
    /\ RowsOf(records, PyInt(DictReader(http[1].req.file)[1]["student_id"]).val) = {}

----------------------------------------------------------------------------
(* SpecAssign: students upload assignments, staff list and download them.  *)

\* The assignment table is capped: no upload is sent once it is full.
AssignRequests ==
    {UploadAssignment(a, f, d) : a \in {1, 4}, f \in RawFilenames, d \in Blobs}
    \cup {ById("download_assignment", 2, id) : id \in 1..MaxAssignments}
    \cup {ListAssignments(3)}

ReceiveAssign ==
    /\ \E req \in AssignRequests :
        /\ req.op = "upload_assignment" => Cardinality(assignments) < MaxAssignments
        /\ Accept(1, req)
    /\ UNCHANGED <<records, assignments, files, submitted>>

NextAssign ==
    \/ ReceiveAssign
    \/ upload_assignment(1)
    \/ list_assignments(1)
    \/ download_assignment(1)
    \/ Deliver(1)

SpecAssign == Init /\ [][NextAssign]_vars

----------------------------------------------------------------------------
(* Properties of the assignments.                                          *)

\* C6: the Assignment row is added and committed only after the blob write
\* has succeeded; if the blob write fails, the call fails and no Assignment
\* row for the submission exists afterwards.
C6_RowOnlyAfterBlob ==
    [][\A w \in Workers : Handled(w, "upload_assignment") =>
        /\ http'[w].resp.status = 500 => assignments' = assignments
        /\ assignments' # assignments =>
            \E a \in assignments' \ assignments :
                /\ assignments' = assignments \cup {a}
                /\ a.filepath \in DOMAIN files'
                /\ files'[a.filepath] = http[w].req.data
                /\ http'[w].resp.status = 302]_vars

\* C6 witness: a blob write broke off part-way, leaving a file behind, the
\* call failed, and the assignment table has no row.
C6_Witness ==
    /\ Responded(1, "upload_assignment")
    /\ http[1].fault.at = "write"
    /\ http[1].resp.status = 500
    /\ DOMAIN files # {}
    /\ assignments = {}

\* The handler turned the request away as invalid instead of raising.
ValidationError(resp) ==
    /\ resp.exc = NoExc
    /\ resp.status # 500
    /\ resp.body # Flash("Assignment uploaded.")

\* C7: the stored filename of every Assignment holds no path separator;
\* a raw filename that sanitizes to the empty string is rejected with
\* ValidationError, writes no blob and creates no Assignment row.
C7_SanitizedOrRejected ==
    [][\A w \in Workers :
        (Handled(w, "upload_assignment") /\ http'[w].resp.status # 403
            /\ http[w].req.filename # None) =>
        /\ \A a \in assignments' : \A i \in 1..Len(a.filename) : a.filename[i] \notin {"/", "\\"}
        /\ secure_filename(http[w].req.filename) = <<>> =>
            /\ ValidationError(http'[w].resp)
            /\ files' = files
            /\ assignments' = assignments]_vars

\* C10: downloading an Assignment returns exactly the bytes submitted in the
\* call that created its row, whatever was submitted after it.  (Stated for
\* the downloads that return some submission whole: a file cut short by a
\* failed write is left aside.)
C10_DownloadReturnsSubmitted ==
    \A w \in Workers :
        (Responded(w, "download_assignment") /\ http[w].resp.status = 200
            /\ http[w].resp.body \in Blobs) =>
            http[w].resp.body = submitted[http[w].req.id]

----------------------------------------------------------------------------
(* SpecAccess: every user sends every kind of request.                     *)

\* An import whose one line is cut short after its student_id cell.
ShortFile == [header |-> Header, lines |-> << << <<"1">> >> >>]

\* An import of one well-formed line.
OneLineFile == [header |-> Header, lines |-> << << <<" ", "4">>, <<"B", "+">> >> >>]

AccessRequests ==
    {ById(op, a, id) : op \in {"student_record", "export_pdf", "export_csv"},
                       a \in UserIds, id \in {1, 2, 4}}
    \cup {EditGrades(a, s, <<"A", ",", "B">>) :
            a \in UserIds, s \in {<<"1">>, <<" ", "4">>, <<"x">>}}
    \cup {UploadGradesCsv(a, f) : a \in UserIds, f \in {ShortFile, OneLineFile}}
    \cup {UploadAssignment(a, <<"a", ".", "t", "x", "t">>, <<3>>) : a \in UserIds}
    \cup {ListAssignments(a) : a \in UserIds}
    \cup {ById("download_assignment", a, id) : a \in UserIds, id \in 1..MaxAssignments}

ReceiveAccess ==
    /\ \E req \in AccessRequests :
        /\ req.op = "upload_assignment" => Cardinality(assignments) < MaxAssignments
        /\ Accept(1, req)
    /\ UNCHANGED <<records, assignments, files, submitted>>

NextAccess ==
    \/ ReceiveAccess
    \/ student_record(1)
    \/ edit_grades_lookup(1)
    \/ edit_grades_commit(1)
    \/ upload_grades_csv(1)
    \/ upload_assignment(1)
    \/ list_assignments(1)
    \/ download_assignment(1)
    \/ export_pdf(1)
    \/ export_csv(1)
    \/ Deliver(1)

SpecAccess == Init /\ [][NextAccess]_vars

----------------------------------------------------------------------------
(* Properties of access control and export.                                *)

\* The user ids worker w's request is made against.
Targets(req) ==
    IF req.op \in {"student_record", "export_pdf", "export_csv"} THEN {req.id}
    ELSE IF req.op = "edit_grades"
    THEN {PyInt(req.student_id).val : x \in {y \in {1} : PyInt(req.student_id).exc = NoExc}}
    ELSE IF req.op = "upload_grades_csv"
    THEN {ParseRow(DictReader(req.file)[i]).student_id :
            i \in {j \in 1..Len(DictReader(req.file)) :
                     ParseRow(DictReader(req.file)[j]).exc = NoExc}}
    ELSE IF req.op = "download_assignment"
    THEN {a.student_id : a \in {b \in assignments : b.id = req.id}}
    ELSE IF req.op = "list_assignments"
    THEN {a.student_id : a \in assignments}
    ELSE {}

GatedOps ==
    {"student_record", "export_pdf", "export_csv", "edit_grades",
     "upload_grades_csv", "list_assignments", "download_assignment"}

\* A student's request against the id of another student.
OnOtherStudent(req) ==
    /\ req.op \in GatedOps
    /\ current_user(req).role = "student"
    /\ \E t \in Targets(req) : t # req.actor /\ StudentById(t) # {}

\* A student's request against the student's own id only.
OnSelf(req) ==
    /\ req.op \in GatedOps
    /\ current_user(req).role = "student"
    /\ Targets(req) = {req.actor}

Stored == <<records, assignments, files, submitted>>

\* In this step worker w's request got its response.
Answered(w) == http[w].phase # "response" /\ http'[w].phase = "response"

\* C3 as claimed: a student's view-record, export, edit-grades, bulk-import,
\* list-all-assignments or download-assignment against another student's id
\* gets AccessDenied and changes nothing stored; on its own id it succeeds.
C3_DeniedOnOthersAllowedOnSelf ==
    [][\A w \in Workers : Answered(w) =>
        /\ OnOtherStudent(http[w].req) =>
            http'[w].resp.status = 403 /\ Stored' = Stored
        /\ OnSelf(http[w].req) => http'[w].resp.status \in {200, 302}]_vars

\* C3 as amended: against another student's id the request gets AccessDenied
\* and changes nothing stored; on its own id view-record and export succeed,
\* while edit-grades, bulk-import, list-all-assignments and
\* download-assignment are denied to a student all the same.
C3_DeniedOnOthersViewOwn ==
    [][\A w \in Workers : Answered(w) =>
        /\ OnOtherStudent(http[w].req) =>
            http'[w].resp.status = 403 /\ Stored' = Stored
        /\ OnSelf(http[w].req) =>
            IF http[w].req.op \in {"student_record", "export_pdf", "export_csv"}
            THEN http'[w].resp.status = 200 /\ Stored' = Stored
            ELSE http'[w].resp.status = 403 /\ Stored' = Stored]_vars

\* C3 witness: student1 asked to download an assignment student2 had
\* uploaded and was denied, with student2's grades on record.
C3_Witness ==
    /\ Responded(1, "download_assignment")
    /\ http[1].req.actor = 1
    /\ \E a \in assignments : a.id = http[1].req.id /\ a.student_id = 4
    /\ RowsOf(records, 4) # {}
    /\ http[1].resp.status = 403

\* A CSV text read back: its rows, each the sequence of its fields.
RECURSIVE CsvParse(_, _, _, _, _)
CsvParse(t, field, row, rows, quoted) ==
    IF t = <<>>
    THEN IF field # <<>> \/ row # <<>> THEN Append(rows, Append(row, field)) ELSE rows
    ELSE IF quoted
    THEN IF Head(t) # "\"" THEN CsvParse(Tail(t), Append(field, Head(t)), row, rows, TRUE)
         ELSE IF Len(t) >= 2 /\ t[2] = "\""
         THEN CsvParse(SubSeq(t, 3, Len(t)), Append(field, "\""), row, rows, TRUE)
         ELSE CsvParse(Tail(t), field, row, rows, FALSE)
    ELSE IF Head(t) = "\"" THEN CsvParse(Tail(t), field, row, rows, TRUE)
    ELSE IF Head(t) = "," THEN CsvParse(Tail(t), <<>>, Append(row, field), rows, FALSE)
    ELSE IF Head(t) = "\r" /\ Len(t) >= 2 /\ t[2] = "\n"
    THEN CsvParse(SubSeq(t, 3, Len(t)), <<>>, <<>>, Append(rows, Append(row, field)), FALSE)
    ELSE IF Head(t) \in {"\r", "\n"}
    THEN CsvParse(Tail(t), <<>>, <<>>, Append(rows, Append(row, field)), FALSE)
    ELSE CsvParse(Tail(t), Append(field, Head(t)), row, rows, FALSE)

\* C8: for an authorized actor and an existing student, export succeeds in
\* both forms, with or without a StudentRecord: the CSV is the header row
\* Username,Grades and one data row of the username and the stored grades,
\* or N/A when no record exists, and the PDF carries the same value.
C8_ExportGradesOrNA ==
    \A w \in Workers : \A student \in {u \in Users : u.role = "student"} :
        (/\ http[w].phase = "response"
         /\ http[w].req.op \in {"export_csv", "export_pdf"}
         /\ http[w].req.id = student.id
         /\ current_user(http[w].req).role # "student" \/ http[w].req.actor = student.id) =>
        LET rec  == RowsOf(records, student.id)
            rows == CsvParse(CsvText(student, rec), <<>>, <<>>, <<>>, FALSE)
            pdf  == PdfLines(student, rec)
        IN  /\ http[w].resp.status = 200
            /\ http[w].resp.body = IF http[w].req.op = "export_csv"
                                   THEN CsvText(student, rec) ELSE pdf
            /\ Len(rows) = 2
            /\ rows[1] = << <<"U","s","e","r","n","a","m","e">>, <<"G","r","a","d","e","s">> >>
            /\ Len(rows[2]) = 2
            /\ rows[2][1] = student.username
            /\ rec = {} => rows[2][2] = NA
            /\ \A r \in rec : r.grades # None => rows[2][2] = r.grades
            /\ pdf[2] = <<"G","r","a","d","e","s",":"," ">> \o rows[2][2]

====
